---- MODULE Spec2Model ----
(***************************************************************************)
(* Transit graph construction and analysis (ds210-final-project).          *)
(*                                                                         *)
(*   parser.rs  load_gtfs_data : stops.txt, stop_times.txt -> GTFSData     *)
(*   graph.rs   TransitGraph::build_from_gtfs                              *)
(*              TransitGraph::compute_closeness_centrality (BFS per node)  *)
(*              TransitGraph::find_closest_stop / euclidean_distance       *)
(*                                                                         *)
(* A HashMap is a function; the order in which a HashMap is iterated is    *)
(* arbitrary, so every iteration over one is an arbitrary permutation of   *)
(* its keys.  A Vec is a sequence.  A Stop is [stop_id, lat, lon] (the     *)
(* display name is never read by the modelled code).                       *)
(***************************************************************************)
EXTENDS Integers, Sequences, FiniteSets, TLC

\* ------------------------------------------------------------------ bounds

\* at most this many data lines in stop_times.txt
MaxEntries == 3
\* at most this many connections in a GTFSData handed to build_from_gtfs
MaxConns == 3
\* at most this many stops in the node table queried by find_closest_stop
MaxStops == 2

StopIds == {"A", "B", "C"}
TripIds == {"T1", "T2"}
SeqNums == {1, 2, 3}
\* coordinates (degrees) of stops and query points: finite numbers
Coords == {0, 1, 10}

\* ------------------------------------------------------------- primitives

Empty == <<>>

Range(s) == {s[i] : i \in DOMAIN s}

SeqsUpTo(S, n) == UNION {[1..k -> S] : k \in 0..n}

\* all orders in which the keys of a HashMap can be iterated
IterOrders(S) ==
  {o \in [1..Cardinality(S) -> S] : \A i, j \in DOMAIN o : i # j => o[i] # o[j]}

\* every order in which the elements of the sequence s can be arranged
SupplyOrders(s) ==
  {[i \in DOMAIN s |-> s[o[i]]] : o \in IterOrders(DOMAIN s)}

\* HashMap::insert / entry().or_insert_with()
MapPut(m, k, v) == [x \in DOMAIN m \cup {k} |-> IF x = k THEN v ELSE m[x]]

Stop(id, lat, lon) == [stop_id |-> id, lat |-> lat, lon |-> lon]
Connection(from, to) == [from_stop_id |-> from, to_stop_id |-> to]
GTFSData(s, c) == [stops |-> s, connections |-> c]

\* usize::saturating_sub
SaturatingSub(a, b) == IF a >= b THEN a - b ELSE 0

\* --------------------------------------------------------------- variables

VARIABLES
  pc,                \* position of the run
  stops,             \* load_gtfs_data: stop_id -> Stop
  stop_sequence_map, \* load_gtfs_data: trip_id -> Vec<(u32, stop_id)>
  connections,       \* load_gtfs_data: Vec<Connection>
  nodes,             \* TransitGraph.nodes
  edges,             \* TransitGraph.edges
  keys_order,        \* the order in which self.nodes is iterated
  node,              \* compute_closeness_centrality: position in keys_order
  visited,           \* compute_closeness_centrality: HashSet of the traversal
  queue,             \* compute_closeness_centrality: VecDeque<(stop_id, dist)>
  distance_sum,      \* compute_closeness_centrality: accumulated distances
  pushes,            \* how often each stop was pushed in the traversal
  centrality,        \* compute_closeness_centrality: the mapping being built
  returned,          \* the mapping the previous call returned, if any
  reordered,         \* the graph was rearranged between two calls
  query,             \* find_closest_stop: (lat, lon)
  closest            \* find_closest_stop: the Option returned

loaderVars == <<stops, stop_sequence_map, connections>>
graphVars == <<nodes, edges>>
bfsVars == <<node, visited, queue, distance_sum, pushes, centrality, returned,
            reordered>>
closestVars == <<query, closest>>
vars == <<pc, stops, stop_sequence_map, connections, nodes, edges, keys_order,
          node, visited, queue, distance_sum, pushes, centrality, returned,
          reordered, query, closest>>

None == [some |-> FALSE]
Some(v) == [some |-> TRUE, val |-> v]

Init ==
  /\ pc = "start"
  /\ stops = Empty
  /\ stop_sequence_map = Empty
  /\ connections = <<>>
  /\ nodes = Empty
  /\ edges = Empty
  /\ keys_order = <<>>
  /\ node = 0
  /\ visited = {}
  /\ queue = <<>>
  /\ distance_sum = 0
  /\ pushes = [s \in StopIds |-> 0]
  /\ centrality = Empty
  /\ returned = None
  /\ reordered = FALSE
  /\ query = <<0, 0>>
  /\ closest = None

\* ------------------------------------------------------------ parser.rs

\* the data lines of stops.txt that have at least 6 fields, already split
StopLines(C) == {Stop(id, la, lo) : id \in StopIds, la \in C, lo \in C}

\* the data lines of stop_times.txt that have at least 5 fields
StopTimeLines ==
  [trip_id : TripIds, stop_id : StopIds, stop_sequence : SeqNums]

RECURSIVE ParseStops(_)
ParseStops(lines) ==
  IF lines = <<>> THEN Empty
  ELSE LET stop == lines[Len(lines)]
       IN  MapPut(ParseStops(SubSeq(lines, 1, Len(lines) - 1)), stop.stop_id, stop)

RECURSIVE ParseStopTimes(_)
ParseStopTimes(lines) ==
  IF lines = <<>> THEN Empty
  ELSE LET l == lines[Len(lines)]
           m == ParseStopTimes(SubSeq(lines, 1, Len(lines) - 1))
           old == IF l.trip_id \in DOMAIN m THEN m[l.trip_id] ELSE <<>>
       IN  MapPut(m, l.trip_id, Append(old, <<l.stop_sequence, l.stop_id>>))

\* e placed behind every element whose key is not greater (stable)
RECURSIVE InsertByKey(_, _)
InsertByKey(sorted, e) ==
  IF sorted = <<>> THEN <<e>>
  ELSE IF sorted[Len(sorted)][1] <= e[1] THEN Append(sorted, e)
  ELSE Append(InsertByKey(SubSeq(sorted, 1, Len(sorted) - 1), e), sorted[Len(sorted)])

\* variant: the entries are left in the order supplied
SortUnstable(s) == s

\* slice::sort_by_key(|(seq, _)| *seq): a stable sort
RECURSIVE SortByKey(_)
SortByKey(s) ==
  IF s = <<>> THEN <<>>
  ELSE InsertByKey(SortByKey(SubSeq(s, 1, Len(s) - 1)), s[Len(s)])

\* variant: the loop stops one pair early
HopsDropLast(sorted) ==
  [i \in 1..SaturatingSub(Len(sorted), 2) |-> Connection(sorted[i][2], sorted[i + 1][2])]

\* for i in 0..stops_seq.len().saturating_sub(1): (stops_seq[i], stops_seq[i+1])
Hops(sorted) ==
  [i \in 1..SaturatingSub(Len(sorted), 1) |-> Connection(sorted[i][2], sorted[i + 1][2])]

\* the connections one trip contributes
TripConnections(stops_seq) == Hops(SortByKey(stops_seq))

\* the outer loop, the trips taken in the order the HashMap yields them
RECURSIVE BuildConnections(_, _)
BuildConnections(map, order) ==
  IF order = <<>> THEN <<>>
  ELSE BuildConnections(map, SubSeq(order, 1, Len(order) - 1))
         \o TripConnections(map[order[Len(order)]])

\* File::open(..)? fails: load_gtfs_data returns Err
LoadFails ==
  /\ pc = "start"
  /\ pc' = "io_error"
  /\ UNCHANGED <<loaderVars, graphVars, keys_order, bfsVars, closestVars>>

\* the loop over stops.txt
LoadStops ==
  /\ pc = "start"
  /\ \E lines \in SeqsUpTo(StopLines({0}), Cardinality(StopIds)) :
       stops' = ParseStops(lines)
  /\ pc' = "stops_parsed"
  /\ UNCHANGED <<stop_sequence_map, connections, graphVars, keys_order, bfsVars,
                 closestVars>>

\* the loop over stop_times.txt
LoadStopTimes ==
  /\ pc = "stops_parsed"
  /\ \E lines \in SeqsUpTo(StopTimeLines, MaxEntries) :
       stop_sequence_map' = ParseStopTimes(lines)
  /\ pc' = "times_parsed"
  /\ UNCHANGED <<stops, connections, graphVars, keys_order, bfsVars, closestVars>>

\* the loop over stop_sequence_map; load_gtfs_data returns Ok(GTFSData)
LoadConnections ==
  /\ pc = "times_parsed"
  /\ \E order \in IterOrders(DOMAIN stop_sequence_map) :
       connections' = BuildConnections(stop_sequence_map, order)
  /\ pc' = "loaded"
  /\ UNCHANGED <<stops, stop_sequence_map, graphVars, keys_order, bfsVars,
                 closestVars>>

\* ------------------------------------------------------------- graph.rs

\* self.edges.entry(from).or_insert_with(Vec::new).push(to), per connection
RECURSIVE InsertEdges(_, _)
InsertEdges(e, conns) ==
  IF conns = <<>> THEN e
  ELSE LET m == InsertEdges(e, SubSeq(conns, 1, Len(conns) - 1))
           c == conns[Len(conns)]
           old == IF c.from_stop_id \in DOMAIN m THEN m[c.from_stop_id] ELSE <<>>
       IN  MapPut(m, c.from_stop_id, Append(old, c.to_stop_id))

build_from_gtfs(data) ==
  /\ nodes' = data.stops
  /\ \E order \in IterOrders(DOMAIN data.stops) : keys_order' = order
  /\ edges' = InsertEdges(edges, data.connections)
  /\ pc' = "built"

\* main.rs: graph.build_from_gtfs(&gtfs) on a new graph
BuildLoaded ==
  /\ pc = "loaded"
  /\ build_from_gtfs(GTFSData(stops, connections))
  /\ UNCHANGED <<loaderVars, bfsVars, closestVars>>

NextBuild == LoadFails \/ LoadStops \/ LoadStopTimes \/ LoadConnections \/ BuildLoaded

SpecBuild == Init /\ [][NextBuild]_vars

\* ------------------------------------- graph.rs: closeness centrality

RECURSIVE Gcd(_, _)
Gcd(a, b) == IF b = 0 THEN a ELSE Gcd(b, a % b)

\* the f64 quotient n / d of two small non-negative integers: the quotient of
\* equal fractions is the same f64, x / 0.0 is inf and 0.0 / 0.0 is NaN
Ratio(n, d) ==
  IF d = 0 THEN (IF n = 0 THEN "NaN" ELSE "inf")
  ELSE <<n \div Gcd(n, d), d \div Gcd(n, d)>>

\* a graph handed to the analysis: any stops, any connections between
\* identifiers (the fields of GTFSData are public)
BuildGraph ==
  /\ pc = "start"
  /\ \E ids \in SUBSET StopIds :
       \E conns \in SeqsUpTo({Connection(f, t) : f \in StopIds, t \in StopIds}, MaxConns) :
         build_from_gtfs(GTFSData([id \in ids |-> Stop(id, 0, 0)], conns))
  /\ UNCHANGED <<loaderVars, bfsVars, closestVars>>

\* s with the elements at i and i + 1 exchanged
Swap(s, i) ==
  [k \in DOMAIN s |-> IF k = i THEN s[i + 1] ELSE IF k = i + 1 THEN s[i] ELSE s[k]]

\* the same nodes and directed edges arranged otherwise, as another run on the
\* same data builds them: the adjacency lists follow the order in which
\* stop_sequence_map yields the trips, and the keys of nodes the hasher.  Two
\* neighbours of an adjacency list, or of the keys, change places.
Reorder ==
  /\ pc = "returned"
  /\ \/ /\ \E x \in DOMAIN edges :
             \E i \in 1..Len(edges[x]) - 1 :
               /\ edges[x][i] # edges[x][i + 1]
               /\ edges' = [edges EXCEPT ![x] = Swap(@, i)]
        /\ UNCHANGED keys_order
     \/ /\ \E i \in 1..Len(keys_order) - 1 : keys_order' = Swap(keys_order, i)
        /\ UNCHANGED edges
  /\ reordered' = TRUE
  /\ UNCHANGED <<pc, loaderVars, nodes, node, visited, queue, distance_sum, pushes,
                 centrality, returned, closestVars>>

\* entry: let mut centrality = HashMap::new(); the mapping of the call before,
\* if there was one, is kept for comparison
compute_closeness_centrality ==
  /\ pc \in {"built", "returned"}
  /\ returned' = IF pc = "returned" THEN Some(centrality) ELSE None
  /\ centrality' = Empty
  /\ node' = 1
  /\ pc' = "for"
  /\ UNCHANGED <<loaderVars, graphVars, keys_order, visited, queue, distance_sum,
                 pushes, reordered, closestVars>>

\* variant: the start stop is not put in the visited set
StartVisitedEmpty(n) == {}

\* variant: the visited set is not cleared between the nodes
StartVisitedKept(n) == visited \cup {n}

\* let mut visited = HashSet::new(); visited.insert(node.clone())
StartVisited(n) == {n}

\* the body of the for loop up to the while loop
ForNode ==
  /\ pc = "for"
  /\ node <= Len(keys_order)
  /\ visited' = StartVisited(keys_order[node])
  /\ queue' = <<(<<keys_order[node], 0>>)>>
  /\ distance_sum' = 0
  /\ pushes' = [s \in StopIds |-> IF s = keys_order[node] THEN 1 ELSE 0]
  /\ pc' = "while"
  /\ UNCHANGED <<loaderVars, graphVars, keys_order, node, centrality, returned,
                 reordered, closestVars>>

\* self.edges.get(&current): the adjacency list, if there is one
Neighbors(current) == IF current \in DOMAIN edges THEN edges[current] ELSE <<>>

\* for neighbor in neighbors { if !visited.contains(neighbor) { insert; push_back } }
\* st = [visited, queue, pushes]
RECURSIVE Visit(_, _, _)
Visit(st, neighbors, dist) ==
  IF neighbors = <<>> THEN st
  ELSE LET n == Head(neighbors)
           nxt == IF n \in st.visited THEN st
                  ELSE [visited |-> st.visited \cup {n},
                        queue |-> Append(st.queue, <<n, dist + 1>>),
                        pushes |-> [st.pushes EXCEPT ![n] = @ + 1]]
       IN  Visit(nxt, Tail(neighbors), dist)

\* one iteration of while let Some((current, dist)) = queue.pop_front()
WhileStep ==
  /\ pc = "while"
  /\ queue # <<>>
  /\ LET current == Head(queue)[1]
         dist == Head(queue)[2]
         st == Visit([visited |-> visited, queue |-> Tail(queue), pushes |-> pushes],
                     Neighbors(current), dist)
     IN  /\ distance_sum' = distance_sum + dist
         /\ visited' = st.visited
         /\ queue' = st.queue
         /\ pushes' = st.pushes
  /\ UNCHANGED <<pc, loaderVars, graphVars, keys_order, node, centrality, returned,
                 reordered, closestVars>>

\* variant: the guard against a zero distance sum is missing
AlwaysScored(sum) == TRUE

\* if distance_sum > 0.0
HasScore(sum) == sum > 0

\* variant: the start stop is counted among the stops reached
ScoreCountingStart(visited_len, sum) == Ratio(visited_len, sum)

\* (visited.len() as f64 - 1.0) / distance_sum
Score(visited_len, sum) == Ratio(visited_len - 1, sum)

\* the queue is empty: the end of the body of the for loop
EndWhile ==
  /\ pc = "while"
  /\ queue = <<>>
  /\ centrality' =
       IF HasScore(distance_sum)
       THEN MapPut(centrality, keys_order[node], Score(Cardinality(visited), distance_sum))
       ELSE centrality
  /\ node' = node + 1
  /\ pc' = "for"
  /\ UNCHANGED <<loaderVars, graphVars, keys_order, visited, queue, distance_sum,
                 pushes, returned, reordered, closestVars>>

\* the keys are exhausted: the mapping is returned
Return ==
  /\ pc = "for"
  /\ node > Len(keys_order)
  /\ pc' = "returned"
  /\ UNCHANGED <<loaderVars, graphVars, keys_order, bfsVars, closestVars>>

Traverse == ForNode \/ WhileStep \/ EndWhile \/ Return

NextCentral == BuildGraph \/ compute_closeness_centrality \/ ForNode \/ WhileStep \/ EndWhile \/ Return \/ Reorder

SpecCentral == Init /\ [][NextCentral]_vars

NextCalls == BuildGraph \/ compute_closeness_centrality \/ Traverse

\* calls on one graph as built; a call runs to completion once made
\* (single-threaded, no suspension points)
SpecCentralFair == Init /\ [][NextCalls]_vars /\ WF_vars(Traverse)

\* ------------------------------------- graph.rs: the closest stop

\* the largest r in lo..hi with r * r <= x
RECURSIVE RootBetween(_, _, _)
RootBetween(x, lo, hi) ==
  IF lo = hi THEN lo
  ELSE LET mid == (lo + hi + 1) \div 2
       IN  IF mid * mid <= x THEN RootBetween(x, mid, hi) ELSE RootBetween(x, lo, mid - 1)

\* f64::sqrt, in thousandths: of the sums of two squares of differences of
\* Coords no two are closer than 0.03 after the root, so the rounding neither
\* merges two distances nor reverses their order
SqrtThousandths(x) == RootBetween(x * 1000000, 0, 40000)

\* (dlat.powi(2) + dlon.powi(2)).sqrt()
euclidean_distance(lat1, lon1, lat2, lon2) ==
  LET dlat == lat1 - lat2
      dlon == lon1 - lon2
  IN  SqrtThousandths(dlat * dlat + dlon * dlon)

\* variant: the None arm is missing
TakeFirstOnlyIfCloser(best, id, dist) ==
  IF best.some /\ dist < best.val[2] THEN Some(<<id, dist>>) ELSE best

\* variant: a stop at an equal distance replaces the best
TakeIfNotFarther(best, id, dist) ==
  IF best.some /\ dist <= best.val[2] THEN Some(<<id, dist>>)
  ELSE IF ~best.some THEN Some(<<id, dist>>)
  ELSE best

\* match &closest { Some((_, best_dist)) if dist < *best_dist => .., None => .., _ => {} }
Take(best, id, dist) ==
  IF best.some /\ dist < best.val[2] THEN Some(<<id, dist>>)
  ELSE IF ~best.some THEN Some(<<id, dist>>)
  ELSE best

\* for (id, stop) in &self.nodes, in the order the HashMap yields them
RECURSIVE Scan(_, _, _, _)
Scan(best, order, lat, lon) ==
  IF order = <<>> THEN best
  ELSE LET id == Head(order)
           dist == euclidean_distance(lat, lon, nodes[id].lat, nodes[id].lon)
       IN  Scan(Take(best, id, dist), Tail(order), lat, lon)

\* a graph of stops with coordinates (stops.txt lines; a later line with the
\* same stop_id replaces the earlier one)
BuildStops ==
  /\ pc = "start"
  /\ \E lines \in SeqsUpTo(StopLines(Coords), MaxStops) :
       build_from_gtfs(GTFSData(ParseStops(lines), <<>>))
  /\ UNCHANGED <<loaderVars, bfsVars, closestVars>>

find_closest_stop ==
  /\ pc \in {"built", "found"}
  /\ \E lat \in Coords, lon \in Coords :
       /\ query' = <<lat, lon>>
       /\ closest' = Scan(None, keys_order, lat, lon)
  /\ pc' = "found"
  /\ UNCHANGED <<loaderVars, graphVars, keys_order, bfsVars>>

NextClosest == BuildStops \/ find_closest_stop

SpecClosest == Init /\ [][NextClosest]_vars

\* ------------------------------------------------- properties of the build

\* the directed edges a vector of connections stands for
EdgeSet(conns) == {<<conns[i].from_stop_id, conns[i].to_stop_id>> : i \in DOMAIN conns}

\* the directed edges of the adjacency table
GraphEdges == UNION {{<<x, edges[x][i]>> : i \in 1..Len(edges[x])} : x \in DOMAIN edges}

RECURSIVE SumOver(_, _)
SumOver(f, S) ==
  IF S = {} THEN 0
  ELSE LET x == CHOOSE x \in S : TRUE IN f[x] + SumOver(f, S \ {x})

DistinctSeqNums(s) == \A i, j \in DOMAIN s : i # j => s[i][1] # s[j][1]

\* entries with pairwise distinct sequence numbers, in ascending order of them
InOrder(s) ==
  [k \in DOMAIN s |->
     CHOOSE e \in Range(s) : Cardinality({f \in Range(s) : f[1] < e[1]}) = k - 1]

\* the position of entry i when s is ordered by sequence number, ties in the
\* order supplied
Position(s, i) ==
  1 + Cardinality({j \in DOMAIN s : s[j][1] < s[i][1] \/ (s[j][1] = s[i][1] /\ j < i)})

BySequenceNumber(s) ==
  [k \in DOMAIN s |-> s[CHOOSE i \in DOMAIN s : Position(s, i) = k]]

\* C1: after build_from_gtfs every stop identifier in an adjacency list (and
\* every source of one) is a key of the node table: a connection with a stop
\* absent from the supplied stops contributes no adjacency entry.
C1_ReferentialIntegrity ==
  pc = "built" =>
    \A e \in GraphEdges : e[1] \in DOMAIN nodes /\ e[2] \in DOMAIN nodes

\* C2: after build_from_gtfs no adjacency list holds the same target twice.
C2_NoDuplicateTargets ==
  pc = "built" =>
    \A x \in DOMAIN edges :
      \A i, j \in 1..Len(edges[x]) : i # j => edges[x][i] # edges[x][j]

\* C3: the entries of a trip with pairwise distinct sequence numbers yield, in
\* whatever order they are supplied, the directed edges that the same entries
\* yield when supplied in ascending order of sequence number, and those are
\* among the connections loaded.
C3_SortInvariance ==
  pc \in {"loaded", "built"} =>
    \A t \in DOMAIN stop_sequence_map :
      LET s == stop_sequence_map[t]
          inorder == EdgeSet(TripConnections(InOrder(s)))
      IN  DistinctSeqNums(s) =>
            /\ \A p \in SupplyOrders(s) : EdgeSet(TripConnections(p)) = inorder
            /\ inorder \subseteq EdgeSet(connections)

C3_Witness ==
  /\ pc = "loaded"
  /\ "T1" \in DOMAIN stop_sequence_map
  /\ stop_sequence_map["T1"] = <<(<<3, "C">>), (<<1, "A">>), (<<2, "B">>)>>
  /\ EdgeSet(connections) = {<<"A", "B">>, <<"B", "C">>}

\* C4: the edges of the graph are exactly the pairs of stops adjacent in some
\* trip ordered by sequence number; a trip of n >= 1 stops yields n - 1
\* connections (none for a single stop), and nothing else is an edge.
C4_ConsecutiveHopsOnly ==
  pc = "built" =>
    /\ Len(connections) =
         SumOver([t \in DOMAIN stop_sequence_map |->
                    IF Len(stop_sequence_map[t]) = 0 THEN 0
                    ELSE Len(stop_sequence_map[t]) - 1],
                 DOMAIN stop_sequence_map)
    /\ GraphEdges =
         {<<BySequenceNumber(stop_sequence_map[t])[i][2],
            BySequenceNumber(stop_sequence_map[t])[i + 1][2]>> :
            <<t, i>> \in {<<t, i>> \in (DOMAIN stop_sequence_map) \X (1..MaxEntries) :
                            i < Len(stop_sequence_map[t])}}

C4_Witness ==
  /\ pc = "built"
  /\ \E t \in DOMAIN stop_sequence_map :
       /\ Len(stop_sequence_map[t]) = 3
       /\ [i \in 1..3 |-> BySequenceNumber(stop_sequence_map[t])[i][2]] = <<"A", "B", "C">>
       /\ stop_sequence_map[t][1][1] # 1
  /\ GraphEdges = {<<"A", "B">>, <<"B", "C">>}

\* ------------------------------------------- properties of the centrality

\* there is a walk of k directed edges from s to t
HasPath(s, t, k) ==
  \E p \in [1..k + 1 -> StopIds] :
    /\ p[1] = s
    /\ p[k + 1] = t
    /\ \A i \in 1..k : <<p[i], p[i + 1]>> \in GraphEdges

\* a shortest walk repeats no stop
LongestHop == Cardinality(StopIds) - 1

\* the other stops reachable from s along directed edges
Reachable(s) == {t \in StopIds \ {s} : \E k \in 1..LongestHop : HasPath(s, t, k)}

\* the shortest directed hop distance from s to a stop reachable from it
HopDistance(s, t) ==
  CHOOSE k \in 1..LongestHop : HasPath(s, t, k) /\ \A j \in 1..k - 1 : ~HasPath(s, t, j)

LineGraph ==
  /\ DOMAIN nodes = {"A", "B", "C"}
  /\ GraphEdges = {<<"A", "B">>, <<"B", "C">>}

\* C5: the keys of the mapping returned are exactly the stops of the node
\* table from which at least one other stop is reachable along directed edges.
C5_KeysReachAnotherStop ==
  pc = "returned" =>
    DOMAIN centrality = {s \in DOMAIN nodes : Reachable(s) # {}}

\* a node table with an isolated stop, a sink and a stop with only a self-loop
C5_Witness ==
  /\ pc = "returned"
  /\ DOMAIN nodes = {"A", "B", "C"}
  /\ GraphEdges = {<<"A", "B">>, <<"C", "C">>}
  /\ DOMAIN centrality = {"A"}

\* C6: the score of a stop s in the mapping is the number of other stops
\* reachable from s along directed edges over the sum of their shortest hop
\* distances from s; on the line graph A->B->C this is A = 2/3, B = 1 and no C.
C6_ScoreIsCountOverDistances ==
  pc = "returned" =>
    /\ \A s \in DOMAIN centrality :
         centrality[s] =
           Ratio(Cardinality(Reachable(s)),
                 SumOver([t \in Reachable(s) |-> HopDistance(s, t)], Reachable(s)))
    /\ LineGraph =>
         /\ DOMAIN centrality = {"A", "B"}
         /\ centrality["A"] = <<2, 3>>
         /\ centrality["B"] = <<1, 1>>

C6_Witness ==
  /\ pc = "returned"
  /\ LineGraph
  /\ "A" \in DOMAIN centrality
  /\ centrality["A"] = <<2, 3>>

\* C9: a call on the same nodes and directed edges returns the mapping the
\* previous call returned, whatever the order of the adjacency lists and the
\* order in which the nodes are seeded.
C9_SameMappingAgain ==
  (pc = "returned" /\ returned.some) => centrality = returned.val

C9_Witness ==
  /\ pc = "returned"
  /\ returned.some
  /\ reordered
  /\ Cardinality(DOMAIN centrality) >= 2
  /\ \E x \in DOMAIN edges : Cardinality(Range(edges[x])) >= 2

\* C10: in every traversal each stop is pushed on the queue at most once, and
\* a call of compute_closeness_centrality, once made, returns.
C10_EachStopOnceAndReturns ==
  /\ [](\A s \in StopIds : pushes[s] <= 1)
  /\ (pc \in {"for", "while"}) ~> (pc = "returned")

\* a cycle A -> B -> A whose first edge is held twice
C10_Witness ==
  /\ pc = "returned"
  /\ DOMAIN nodes = {"A", "B"}
  /\ DOMAIN edges = {"A", "B"}
  /\ edges["A"] = <<"B", "B">>
  /\ edges["B"] = <<"A">>
  /\ DOMAIN centrality = {"A", "B"}

\* --------------------------------------------- properties of the closest stop

\* the distance of the stop id of the node table to the query point
QueryDistance(id) ==
  euclidean_distance(query[1], query[2], nodes[id].lat, nodes[id].lon)

\* C7: find_closest_stop returns None exactly when the node table is empty,
\* and otherwise one (stop_id, distance) whose stop_id is a key of the table.
C7_NoneIffNoNodes ==
  pc = "found" =>
    /\ closest = None <=> DOMAIN nodes = {}
    /\ closest # None => closest.some /\ closest.val[1] \in DOMAIN nodes

C7_Witness ==
  /\ pc = "found"
  /\ DOMAIN nodes = {}
  /\ closest = None

\* C8: for a non-empty node table the stop returned is the first one, in the
\* order the node table is iterated, that no stop is strictly closer than, with
\* that stop's own distance; stops at (0,0) and (10,10) queried at (1,1) give
\* the stop at (0,0) at distance 1.414.
C8_FirstOfTheClosest ==
  (pc = "found" /\ DOMAIN nodes # {}) =>
    /\ \E i \in DOMAIN keys_order :
         /\ closest = Some(<<keys_order[i], QueryDistance(keys_order[i])>>)
         /\ \A j \in DOMAIN keys_order :
              /\ QueryDistance(keys_order[j]) >= QueryDistance(keys_order[i])
              /\ j < i => QueryDistance(keys_order[j]) > QueryDistance(keys_order[i])
    /\ \A a, b \in DOMAIN nodes :
         ( /\ DOMAIN nodes = {a, b}
           /\ <<nodes[a].lat, nodes[a].lon>> = <<0, 0>>
           /\ <<nodes[b].lat, nodes[b].lon>> = <<10, 10>>
           /\ query = <<1, 1>> ) => closest = Some(<<a, 1414>>)

\* two stops at the same distance, the second in iteration order passed over
C8_Witness ==
  /\ pc = "found"
  /\ Len(keys_order) = 2
  /\ nodes[keys_order[1]].lat # nodes[keys_order[2]].lat
  /\ QueryDistance(keys_order[1]) = QueryDistance(keys_order[2])
  /\ QueryDistance(keys_order[1]) > 0
  /\ closest = Some(<<keys_order[1], QueryDistance(keys_order[1])>>)

====
